---- MODULE Spec2Model ----
(***************************************************************************)
(* Model of the reconciliation engine of the multi-tenant invoice          *)
(* reconciliation service: scoring (app/services/scoring.py), the match     *)
(* repository (app/repositories/match.py) and the orchestrator             *)
(* (app/services/reconciliation_service.py).                                *)
(*                                                                         *)
(* Units: money in cents; achieved values in millionths (1.0 = 1000000);    *)
(* weights in hundredths; contributions in 1e-8; score totals in 1e-4, the  *)
(* precision of MatchCandidate.score, Numeric(5, 4).                        *)
(***************************************************************************)
EXTENDS Integers, Sequences, FiniteSets, TLC

VARIABLES
    transactions,    \* banktransaction table: id -> row (immutable once imported)
    invoice_status,  \* invoice.status column: invoice id -> InvoiceStatus
    candidates,      \* matchcandidate table: set of rows
    nextId,          \* ids handed out so far + 1 (uuid4 primary keys are fresh)
    response,        \* what the last service call returned or raised
    calls,           \* number of service calls made
    sessions,        \* request -> its database session: position in the call, what it
                     \* has read, and its flushed but uncommitted writes
    scoring,         \* the pair or component handed to the scoring functions, and the result
    idempotency      \* idempotencykey table: set of rows

vars == <<transactions, invoice_status, candidates, nextId, response, calls, sessions, scoring, idempotency>>

\* Number of service calls explored in one behaviour.
MaxCalls == 3

(***************************************************************************)
(* Enumerations of app/db/models.py                                         *)
(***************************************************************************)
OPEN == "open"
MATCHED == "matched"
PAID == "paid"
CANCELLED == "cancelled"
InvoiceStatus == {OPEN, MATCHED, PAID, CANCELLED}

PROPOSED == "proposed"
CONFIRMED == "confirmed"
REJECTED == "rejected"
MatchStatus == {PROPOSED, CONFIRMED, REJECTED}

None == "None"
\* An absent date (dates are day numbers).
NoDate == 0 - 1

(***************************************************************************)
(* Stored tenants, invoices and bank transactions.  Invoices are fixed;    *)
(* the attributes of tenant tA's transactions are drawn in Init.            *)
(***************************************************************************)
Tenants == {"tA", "tB"}
InvoiceIds == {"i1", "i2", "i3"}
TxnIds == {"x1", "x2", "x3", "x4", "x5"}

DescPlain == "consulting services"
DescAcme == "consulting services for acme"

Invoice(i) ==
    CASE i = "i1" -> [id |-> "i1", tenant_id |-> "tA", amount |-> 10000,
                      invoice_date |-> 10, description |-> DescPlain, vendor |-> None]
      [] i = "i2" -> [id |-> "i2", tenant_id |-> "tA", amount |-> 10001,
                      invoice_date |-> 10, description |-> DescPlain, vendor |-> "acme"]
      [] i = "i3" -> [id |-> "i3", tenant_id |-> "tB", amount |-> 15000,
                      invoice_date |-> NoDate, description |-> DescPlain, vendor |-> None]

TxnTenant(x) == IF x = "x5" THEN "tB" ELSE "tA"

\* The rows the transactions may have been imported with.
TxnExact == [amount |-> 10000, posted_at |-> 11, description |-> DescPlain]
TxnCentOff == [amount |-> 10001, posted_at |-> 11, description |-> DescPlain]
TxnHalfOff == [amount |-> 10050, posted_at |-> 11, description |-> DescPlain]
TxnAcme == [amount |-> 10001, posted_at |-> 16, description |-> DescAcme]
TxnOther == [amount |-> 15001, posted_at |-> 40, description |-> None]

TxnProfiles(x) ==
    CASE x = "x1" -> {TxnExact}
      [] x = "x2" -> {TxnExact, TxnCentOff}
      [] x = "x3" -> {TxnCentOff, TxnAcme}
      [] x = "x4" -> {TxnExact, TxnHalfOff}
      [] x = "x5" -> {TxnOther}

TxnRow(x, p) ==
    [id |-> x, tenant_id |-> TxnTenant(x), amount |-> p.amount,
     posted_at |-> p.posted_at, description |-> p.description]

(***************************************************************************)
(* Scoring: app/services/scoring.py                                         *)
(***************************************************************************)
Abs(n) == IF n < 0 THEN 0 - n ELSE n
Min(a, b) == IF a <= b THEN a ELSE b
Max(a, b) == IF a >= b THEN a ELSE b

\* abs(float(a) - float(b)) for two-decimal amounts: the exact difference in
\* cents and the sign of the binary rounding error of the float subtraction
\* (the doubles nearest to 100.01 and 100.00 differ by 0.010000000000005116,
\* those nearest to 150.01 and 150.00 by 0.009999999999990905).
FloatAbove == { {10000, 10001}, {10000, 10101}, {10050, 10101}, {10100, 10101},
                {15001, 20000}, {15001, 25000} }
FloatBelow == { {15000, 15001}, {10001, 10050}, {10000, 15001}, {10001, 15000},
                {10001, 15001}, {10050, 15001}, {10001, 10100}, {10100, 15001},
                {10101, 15000}, {10101, 15001} }

float_amount_diff(invoice_amount, txn_amount) ==
    [cents |-> Abs(invoice_amount - txn_amount),
     err |-> IF {invoice_amount, txn_amount} \in FloatAbove THEN 1
             ELSE IF {invoice_amount, txn_amount} \in FloatBelow THEN 0 - 1
             ELSE 0]

\* amount_diff <= bound, bound a whole number of cents
DiffLeq(amount_diff, bound_cents) ==
    \/ amount_diff.cents < bound_cents
    \/ amount_diff.cents = bound_cents /\ amount_diff.err <= 0

ScoreComponent(name, weight, achieved) ==
    [name |-> name, weight |-> weight, achieved |-> achieved]

contribution(c) == c.weight * Max(0, Min(c.achieved, 1000000))

exact_amount_component(amount_diff) ==
    ScoreComponent("amount_exact", 50, IF DiffLeq(amount_diff, 1) THEN 1000000 ELSE 0)

tolerance_component(amount_diff) ==
    ScoreComponent("amount_tolerance", 20,
        IF DiffLeq(amount_diff, 100)
        THEN Max(0, 1000000 - amount_diff.cents * 10000)
        ELSE 0)

date_component(invoice_date, posted_at) ==
    IF invoice_date = NoDate
    THEN ScoreComponent("date", 20, 300000)
    ELSE LET days == Abs(posted_at - invoice_date)
         IN  ScoreComponent("date", 20,
                 IF days <= 3 THEN 1000000 ELSE IF days <= 7 THEN 500000 ELSE 0)

\* SequenceMatcher(None, a.lower(), b.lower()).ratio() on the stored texts:
\* 2 * 19 / (19 + 28) = 0.808511 for the two different ones.
text_ratio(a, b) == IF a = b THEN 1000000 ELSE 808511

description_component(invoice_description, txn_description) ==
    IF invoice_description = None \/ txn_description = None
    THEN ScoreComponent("description", 10,
             IF invoice_description # None \/ txn_description # None THEN 300000 ELSE 0)
    ELSE ScoreComponent("description", 10, text_ratio(invoice_description, txn_description))

\* vendor_name.lower() in txn_description.lower()
vendor_in_memo(vendor_name, txn_description) ==
    vendor_name = "acme" /\ txn_description = DescAcme

vendor_component(vendor_name, txn_description) ==
    IF vendor_name = None THEN ScoreComponent("vendor_boost", 5, 0)
    ELSE IF txn_description = None THEN ScoreComponent("vendor_boost", 5, 200000)
    ELSE ScoreComponent("vendor_boost", 5,
             IF vendor_in_memo(vendor_name, txn_description) THEN 1000000 ELSE 0)

\* round(x, 4) of a total held in 1e-8 units
round4(total8) == (total8 + 5000) \div 10000

score_components(invoice, transaction) ==
    LET amount_diff == float_amount_diff(invoice.amount, transaction.amount)
    IN  << exact_amount_component(amount_diff),
           tolerance_component(amount_diff),
           date_component(invoice.invoice_date, transaction.posted_at),
           description_component(invoice.description, transaction.description),
           vendor_component(invoice.vendor, transaction.description) >>

RECURSIVE SumContributions(_)
SumContributions(components) ==
    IF components = <<>> THEN 0
    ELSE contribution(Head(components)) + SumContributions(Tail(components))

score_match_uncapped(invoice, transaction) ==
    round4(SumContributions(score_components(invoice, transaction)))

score_match(invoice, transaction) ==
    round4(Min(SumContributions(score_components(invoice, transaction)), 100000000))

\* MatchScore.total and MatchScore.components
MatchScore(invoice, transaction) ==
    [total |-> score_match(invoice, transaction),
     components |-> score_components(invoice, transaction)]

confidence_label(total) ==
    IF total >= 8000 THEN "high" ELSE IF total >= 5500 THEN "medium" ELSE "low"

SCORE_THRESHOLD == 4500
CANDIDATES_PER_INVOICE == 3

(***************************************************************************)
(* Repositories: app/repositories/{base,invoice,bank_transaction,match}.py  *)
(***************************************************************************)
Range(s) == { s[k] : k \in 1..Len(s) }
Ids(rows) == { r.id : r \in rows }

\* The orders in which a SELECT without ORDER BY may return the rows `ids`.
RowOrders(ids) ==
    { s \in [1..Cardinality(ids) -> ids] : \A a, b \in 1..Cardinality(ids) : a # b => s[a] # s[b] }

list_open_invoices(tenant) ==
    { i \in InvoiceIds : Invoice(i).tenant_id = tenant /\ invoice_status[i] = OPEN }

list_for_invoice_matching(tenant) ==
    { x \in DOMAIN transactions : transactions[x].tenant_id = tenant }

get_for_tenant_any_tenant(rows, tenant, obj_id) ==
    { r \in rows : r.id = obj_id }

get_for_tenant(rows, tenant, obj_id) ==
    { r \in rows : r.id = obj_id /\ r.tenant_id = tenant }

clear_proposed_any_tenant(rows, tenant) ==
    { r \in rows : r.status # PROPOSED }

clear_proposed_marks_rejected(rows, tenant) ==
    { IF r.tenant_id = tenant /\ r.status = PROPOSED
      THEN [r EXCEPT !.status = REJECTED] ELSE r : r \in rows }

clear_proposed_keeps_rows(rows, tenant) == rows

clear_proposed_all_statuses(rows, tenant) ==
    { r \in rows : r.tenant_id # tenant }

clear_proposed(rows, tenant) ==
    { r \in rows : ~(r.tenant_id = tenant /\ r.status = PROPOSED) }

reject_other_matches_noop(rows, tenant, invoice_id, exclude_match_id) == rows

reject_other_matches_any_invoice(rows, tenant, invoice_id, exclude_match_id) ==
    { IF r.tenant_id = tenant /\ r.id # exclude_match_id /\ r.status = PROPOSED
      THEN [r EXCEPT !.status = REJECTED] ELSE r : r \in rows }

reject_other_matches(rows, tenant, invoice_id, exclude_match_id) ==
    { IF /\ r.tenant_id = tenant
         /\ r.invoice_id = invoice_id
         /\ r.id # exclude_match_id
         /\ r.status = PROPOSED
      THEN [r EXCEPT !.status = REJECTED] ELSE r : r \in rows }

existing_pairs_confirmed_only(rows, tenant) ==
    { <<r.invoice_id, r.bank_transaction_id>> :
        r \in { q \in rows : q.tenant_id = tenant /\ q.status = CONFIRMED } }

existing_pairs(rows, tenant) ==
    { <<r.invoice_id, r.bank_transaction_id>> : r \in { q \in rows : q.tenant_id = tenant } }

confirmed_invoice_ids(rows, tenant) ==
    { r.invoice_id : r \in { q \in rows : q.tenant_id = tenant /\ q.status = CONFIRMED } }

confirmed_transaction_ids_none(rows, tenant) == {}

confirmed_transaction_ids(rows, tenant) ==
    { r.bank_transaction_id : r \in { q \in rows : q.tenant_id = tenant /\ q.status = CONFIRMED } }

(***************************************************************************)
(* Orchestrator: app/services/reconciliation_service.py                     *)
(***************************************************************************)
\* The inner loop of _build_proposed_entities: the (score, candidate) items
\* of one invoice, in the order the transactions were returned.
RECURSIVE per_invoice_candidates(_, _, _, _)
per_invoice_candidates(invoice_id, txn_rows, confirmed_txn_ids, pairs) ==
    IF txn_rows = <<>> THEN <<>>
    ELSE LET txn_id == Head(txn_rows)
             rest == per_invoice_candidates(invoice_id, Tail(txn_rows), confirmed_txn_ids, pairs)
             total == score_match(Invoice(invoice_id), transactions[txn_id])
         IN  IF \/ txn_id \in confirmed_txn_ids
                \/ <<invoice_id, txn_id>> \in pairs
                \/ total < SCORE_THRESHOLD
             THEN rest
             ELSE << [score |-> total, invoice_id |-> invoice_id,
                      bank_transaction_id |-> txn_id] >> \o rest

\* list.sort(key=score, reverse=True) / sorted(..., reverse=True): stable,
\* items of equal score keep their order.
RECURSIVE InsertByScore(_, _)
InsertByScore(sorted, item) ==
    IF sorted = <<>> THEN <<item>>
    ELSE IF Head(sorted).score >= item.score
         THEN <<Head(sorted)>> \o InsertByScore(Tail(sorted), item)
         ELSE <<item>> \o sorted

sort_keeps_order(items) == items

RECURSIVE sort_by_score_desc(_)
sort_by_score_desc(items) ==
    IF items = <<>> THEN <<>>
    ELSE InsertByScore(sort_by_score_desc(SubSeq(items, 1, Len(items) - 1)), items[Len(items)])

shortlist_one_short(sorted) == SubSeq(sorted, 1, Min(Len(sorted), CANDIDATES_PER_INVOICE - 1))

\* per_invoice_candidates[: CANDIDATES_PER_INVOICE]
shortlist(sorted) == SubSeq(sorted, 1, Min(Len(sorted), CANDIDATES_PER_INVOICE))

\* The outer loop: the pool of all invoices' shortlists.
RECURSIVE candidate_pool(_, _, _, _, _)
candidate_pool(invoice_rows, txn_rows, confirmed_inv_ids, confirmed_txn_ids, pairs) ==
    IF invoice_rows = <<>> THEN <<>>
    ELSE LET invoice_id == Head(invoice_rows)
             rest == candidate_pool(Tail(invoice_rows), txn_rows, confirmed_inv_ids,
                                    confirmed_txn_ids, pairs)
         IN  IF invoice_id \in confirmed_inv_ids THEN rest
             ELSE shortlist(sort_by_score_desc(
                      per_invoice_candidates(invoice_id, txn_rows, confirmed_txn_ids, pairs)))
                  \o rest

skip_candidate_ignores_used(candidate, used_transactions, per_invoice_counts) ==
    per_invoice_counts[candidate.invoice_id] >= CANDIDATES_PER_INVOICE

\* The two `continue` tests of the greedy walk.
skip_candidate(candidate, used_transactions, per_invoice_counts) ==
    \/ candidate.bank_transaction_id \in used_transactions
    \/ per_invoice_counts[candidate.invoice_id] >= CANDIDATES_PER_INVOICE

RECURSIVE greedy_select(_, _, _)
greedy_select(sorted_pool, used_transactions, per_invoice_counts) ==
    IF sorted_pool = <<>> THEN <<>>
    ELSE LET candidate == Head(sorted_pool)
         IN  IF skip_candidate(candidate, used_transactions, per_invoice_counts)
             THEN greedy_select(Tail(sorted_pool), used_transactions, per_invoice_counts)
             ELSE <<candidate>> \o
                  greedy_select(Tail(sorted_pool),
                      used_transactions \cup {candidate.bank_transaction_id},
                      [per_invoice_counts EXCEPT ![candidate.invoice_id] = @ + 1])

build_proposed_entities_unsorted(invoice_rows, txn_rows, confirmed_inv_ids, confirmed_txn_ids, pairs) ==
    greedy_select(
        candidate_pool(invoice_rows, txn_rows, confirmed_inv_ids, confirmed_txn_ids, pairs),
        confirmed_txn_ids,
        [i \in InvoiceIds |-> 0])

build_proposed_entities(invoice_rows, txn_rows, confirmed_inv_ids, confirmed_txn_ids, pairs) ==
    greedy_select(
        sort_by_score_desc(
            candidate_pool(invoice_rows, txn_rows, confirmed_inv_ids, confirmed_txn_ids, pairs)),
        confirmed_txn_ids,
        [i \in InvoiceIds |-> 0])

\* The rows session.add() stores for the selected candidates, with fresh ids.
new_entities(tenant, selected) ==
    [ k \in 1..Len(selected) |->
        [id |-> nextId + k - 1, tenant_id |-> tenant,
         invoice_id |-> selected[k].invoice_id,
         bank_transaction_id |-> selected[k].bank_transaction_id,
         score |-> selected[k].score, status |-> PROPOSED] ]

Response(op, tenant, arg, error, matches, inv_status) ==
    [op |-> op, tenant |-> tenant, arg |-> arg, error |-> error,
     matches |-> matches, invoice_status |-> inv_status]

reconcile(tenant) ==
    /\ calls < MaxCalls
    /\ calls' = calls + 1
    /\ \E invoice_rows \in RowOrders(list_open_invoices(tenant)),
          txn_rows \in RowOrders(list_for_invoice_matching(tenant)) :
         IF invoice_rows = <<>> \/ txn_rows = <<>>
         THEN \* _clear_and_return_empty
              /\ candidates' = clear_proposed(candidates, tenant)
              /\ response' = Response("reconcile", tenant, 0, "", <<>>, "")
              /\ UNCHANGED nextId
         ELSE LET proposed_entities ==
                      new_entities(tenant,
                          build_proposed_entities(invoice_rows, txn_rows,
                              confirmed_invoice_ids(candidates, tenant),
                              confirmed_transaction_ids(candidates, tenant),
                              existing_pairs(candidates, tenant)))
              IN  /\ candidates' = clear_proposed(candidates, tenant) \cup Range(proposed_entities)
                  /\ nextId' = nextId + Len(proposed_entities)
                  /\ response' = Response("reconcile", tenant, 0, "", proposed_entities, "")
    /\ UNCHANGED <<transactions, invoice_status, sessions, scoring, idempotency>>

is_proposed_or_rejected(match) == match.status # CONFIRMED

\* match.status != MatchStatus.PROPOSED raises ConflictError
is_proposed(match) == match.status = PROPOSED

confirm_match(tenant, match_id) ==
    /\ calls < MaxCalls
    /\ calls' = calls + 1
    /\ LET found == get_for_tenant(candidates, tenant, match_id)
       IN  IF found = {}
           THEN /\ response' = Response("confirm_match", tenant, match_id, "NotFound", <<>>, "")
                /\ UNCHANGED <<candidates, invoice_status>>
           ELSE LET match == CHOOSE r \in found : TRUE
                    confirmed == [match EXCEPT !.status = CONFIRMED]
                IN  IF ~is_proposed(match)
                    THEN /\ response' = Response("confirm_match", tenant, match_id,
                                                 "Conflict", <<>>, "")
                         /\ UNCHANGED <<candidates, invoice_status>>
                    ELSE /\ candidates' =
                                reject_other_matches((candidates \ {match}) \cup {confirmed},
                                    tenant, match.invoice_id, match.id)
                         /\ invoice_status' = [invoice_status EXCEPT ![match.invoice_id] = MATCHED]
                         /\ response' = Response("confirm_match", tenant, match_id, "",
                                                 <<confirmed>>, MATCHED)
    /\ UNCHANGED <<transactions, nextId, sessions, scoring, idempotency>>

\* Invoice.status written from outside the engine (PAID and CANCELLED are
\* externally driven).
external_invoice_status(invoice_id, status) ==
    /\ calls < MaxCalls
    /\ calls' = calls + 1
    /\ invoice_status[invoice_id] # status
    /\ invoice_status' = [invoice_status EXCEPT ![invoice_id] = status]
    /\ response' = Response("external", Invoice(invoice_id).tenant_id, 0, "", <<>>, status)
    /\ UNCHANGED <<transactions, candidates, nextId, sessions, scoring, idempotency>>

(***************************************************************************)
(* Specifications                                                          *)
(***************************************************************************)
\* The requests that may be in flight at the same time, each with the
\* session get_db_session() opened for it.
Procs == {"p1", "p2"}

\* A session outside a call: nothing read, nothing flushed.
IdleSession ==
    [pc |-> "idle", op |-> "none", tenant |-> "tA", arg |-> 0,
     invoice_rows |-> <<>>, txn_rows |-> <<>>,
     confirmed_inv |-> {}, confirmed_txn |-> {}, pairs |-> {},
     deleted |-> {}, found |-> {}, siblings |-> {},
     error |-> "", matches |-> <<>>, base |-> {}]

\* No scoring function has been called.
NoOutput == [done |-> FALSE, total |-> 0, label |-> "", components |-> <<>>, contribution |-> 0]
NoInput ==
    [kind |-> "none",
     invoice |-> [amount |-> 0, invoice_date |-> NoDate, description |-> None, vendor |-> None],
     transaction |-> [amount |-> 0, posted_at |-> 0, description |-> None],
     component |-> ScoreComponent("none", 0, 0)]

Init ==
    /\ sessions = [p \in Procs |-> IdleSession]
    /\ scoring = [input |-> NoInput, output |-> NoOutput]
    /\ \E profile \in [TxnIds -> UNION { TxnProfiles(x) : x \in TxnIds }] :
         /\ \A x \in TxnIds : profile[x] \in TxnProfiles(x)
         /\ transactions = [x \in TxnIds |-> TxnRow(x, profile[x])]
    /\ invoice_status = [i \in InvoiceIds |-> OPEN]
    /\ candidates = {}
    /\ nextId = 1
    /\ response = Response("none", "tA", 0, "", <<>>, "")
    /\ calls = 0
    /\ idempotency = {}

Reconcile == \E tenant \in Tenants : reconcile(tenant)

ConfirmMatch == \E tenant \in Tenants, match_id \in 1..nextId : confirm_match(tenant, match_id)

ExternalInvoiceStatus ==
    \E invoice_id \in InvoiceIds, status \in {PAID, CANCELLED} :
        external_invoice_status(invoice_id, status)

Next == Reconcile \/ ConfirmMatch

Spec == Init /\ [][Next]_vars

NextExt == Reconcile \/ ConfirmMatch \/ ExternalInvoiceStatus

SpecExt == Init /\ [][NextExt]_vars

(***************************************************************************)
(* The calls as the database sees them: each request runs in its own        *)
(* session (app/core/database.py), whose statements execute one at a time   *)
(* against the committed rows, and whose flushed writes reach the committed *)
(* rows at commit. Rows written by a transaction that is still open are     *)
(* locked: another session's statement on them waits.                       *)
(***************************************************************************)
InCall(p) == sessions[p].pc \notin {"idle", "done"}

LockedByOthers(p) == UNION { sessions[q].deleted : q \in Procs \ {p} }

\* The session after its call returned or raised.
Done(s, error, matches) ==
    [IdleSession EXCEPT !.pc = "done", !.op = s.op, !.tenant = s.tenant, !.arg = s.arg,
                        !.error = error, !.matches = matches, !.base = s.base]

\* reconcile() l.35-38: the two list queries.
load_inputs(p, tenant) ==
    /\ ~InCall(p)
    /\ calls < MaxCalls
    /\ calls' = calls + 1
    /\ \E invoice_rows \in RowOrders(list_open_invoices(tenant)),
          txn_rows \in RowOrders(list_for_invoice_matching(tenant)) :
         sessions' = [sessions EXCEPT ![p] =
             [IdleSession EXCEPT
                 !.pc = IF invoice_rows = <<>> \/ txn_rows = <<>> THEN "empty" ELSE "loaded",
                 !.op = "reconcile", !.tenant = tenant,
                 !.invoice_rows = invoice_rows, !.txn_rows = txn_rows,
                 !.base = candidates]]
    /\ UNCHANGED <<transactions, invoice_status, candidates, nextId, response, scoring, idempotency>>

\* reconcile() l.41-43: the three snapshot queries.
take_snapshot(p) ==
    /\ sessions[p].pc = "loaded"
    /\ LET s == sessions[p]
       IN  sessions' = [sessions EXCEPT ![p] =
               [s EXCEPT !.pc = "snapshot",
                         !.confirmed_inv = confirmed_invoice_ids(candidates, s.tenant),
                         !.confirmed_txn = confirmed_transaction_ids(candidates, s.tenant),
                         !.pairs = existing_pairs(candidates, s.tenant)]]
    /\ UNCHANGED <<transactions, invoice_status, candidates, nextId, response, calls, scoring, idempotency>>

flush_clear_proposed_autocommit(p) ==
    /\ sessions[p].pc = "snapshot"
    /\ (Ids(candidates) \ Ids(clear_proposed(candidates, sessions[p].tenant)))
           \cap LockedByOthers(p) = {}
    /\ candidates' = clear_proposed(candidates, sessions[p].tenant)
    /\ sessions' = [sessions EXCEPT ![p] = [@ EXCEPT !.pc = "cleared"]]
    /\ UNCHANGED <<transactions, invoice_status, nextId, response, calls, scoring, idempotency>>

\* reconcile() l.45: the DELETE of clear_proposed, executed and flushed inside
\* the session's transaction.
flush_clear_proposed(p) ==
    /\ sessions[p].pc = "snapshot"
    /\ LET target == Ids(candidates) \ Ids(clear_proposed(candidates, sessions[p].tenant))
       IN  /\ target \cap LockedByOthers(p) = {}
           /\ sessions' = [sessions EXCEPT ![p] = [@ EXCEPT !.pc = "cleared", !.deleted = target]]
    /\ UNCHANGED <<transactions, invoice_status, candidates, nextId, response, calls, scoring, idempotency>>

\* reconcile() l.47-67: build the proposals from what was read, INSERT them and
\* commit; uq_match_unique_pair rejects a pair that is already stored.
commit_proposed(p) ==
    /\ sessions[p].pc = "cleared"
    /\ LET s == sessions[p]
           visible == { r \in candidates : r.id \notin s.deleted }
           proposed_entities ==
               new_entities(s.tenant,
                   build_proposed_entities(s.invoice_rows, s.txn_rows,
                       s.confirmed_inv, s.confirmed_txn, s.pairs))
       IN  IF \E e \in Range(proposed_entities), r \in visible :
                  /\ r.tenant_id = e.tenant_id
                  /\ r.invoice_id = e.invoice_id
                  /\ r.bank_transaction_id = e.bank_transaction_id
           THEN /\ sessions' = [sessions EXCEPT ![p] = Done(s, "IntegrityError", <<>>)]
                /\ response' = Response("reconcile", s.tenant, 0, "IntegrityError", <<>>, "")
                /\ UNCHANGED <<candidates, nextId>>
           ELSE /\ candidates' = visible \cup Range(proposed_entities)
                /\ nextId' = nextId + Len(proposed_entities)
                /\ sessions' = [sessions EXCEPT ![p] = Done(s, "", proposed_entities)]
                /\ response' = Response("reconcile", s.tenant, 0, "", proposed_entities, "")
    /\ UNCHANGED <<transactions, invoice_status, calls, scoring, idempotency>>

\* _clear_and_return_empty l.69-72.
clear_and_return_empty(p) ==
    /\ sessions[p].pc = "empty"
    /\ LET s == sessions[p]
           target == Ids(candidates) \ Ids(clear_proposed(candidates, s.tenant))
       IN  /\ target \cap LockedByOthers(p) = {}
           /\ candidates' = { r \in candidates : r.id \notin target }
           /\ sessions' = [sessions EXCEPT ![p] = Done(s, "", <<>>)]
           /\ response' = Response("reconcile", s.tenant, 0, "", <<>>, "")
    /\ UNCHANGED <<transactions, invoice_status, nextId, calls, scoring, idempotency>>

\* confirm_match() l.139-149: the candidate, its invoice and its PROPOSED
\* siblings are read and changed in the session; nothing is flushed yet
\* (autoflush is off).
load_match(p, tenant, match_id) ==
    /\ ~InCall(p)
    /\ calls < MaxCalls
    /\ calls' = calls + 1
    /\ LET found == get_for_tenant(candidates, tenant, match_id)
           s == [IdleSession EXCEPT !.op = "confirm_match", !.tenant = tenant,
                                    !.arg = match_id, !.base = candidates]
       IN  IF found = {}
           THEN /\ sessions' = [sessions EXCEPT ![p] = Done(s, "NotFound", <<>>)]
                /\ response' = Response("confirm_match", tenant, match_id, "NotFound", <<>>, "")
           ELSE LET match == CHOOSE r \in found : TRUE
                IN  IF ~is_proposed(match)
                    THEN /\ sessions' = [sessions EXCEPT ![p] = Done(s, "Conflict", <<>>)]
                         /\ response' = Response("confirm_match", tenant, match_id,
                                                 "Conflict", <<>>, "")
                    ELSE /\ sessions' = [sessions EXCEPT ![p] =
                                [s EXCEPT !.pc = "loaded_match", !.found = found,
                                          !.siblings = Ids(candidates \
                                              reject_other_matches(candidates, tenant,
                                                  match.invoice_id, match.id))]]
                         /\ UNCHANGED response
    /\ UNCHANGED <<transactions, invoice_status, candidates, nextId, scoring, idempotency>>

\* confirm_match() l.151: the flush writes each changed object by primary key
\* (a row that is gone raises StaleDataError), then the commit.
commit_confirmation(p) ==
    /\ sessions[p].pc = "loaded_match"
    /\ LET s == sessions[p]
           match == CHOOSE r \in s.found : TRUE
           confirmed == [match EXCEPT !.status = CONFIRMED]
           touched == {match.id} \cup s.siblings
       IN  /\ touched \cap LockedByOthers(p) = {}
           /\ IF ~(touched \subseteq Ids(candidates))
              THEN /\ sessions' = [sessions EXCEPT ![p] = Done(s, "StaleDataError", <<>>)]
                   /\ response' = Response("confirm_match", s.tenant, s.arg,
                                           "StaleDataError", <<>>, "")
                   /\ UNCHANGED <<candidates, invoice_status>>
              ELSE /\ candidates' =
                          { IF r.id = match.id THEN [r EXCEPT !.status = CONFIRMED]
                            ELSE IF r.id \in s.siblings THEN [r EXCEPT !.status = REJECTED]
                            ELSE r : r \in candidates }
                   /\ invoice_status' = [invoice_status EXCEPT ![match.invoice_id] = MATCHED]
                   /\ sessions' = [sessions EXCEPT ![p] = Done(s, "", <<confirmed>>)]
                   /\ response' = Response("confirm_match", s.tenant, s.arg, "",
                                           <<confirmed>>, MATCHED)
    /\ UNCHANGED <<transactions, nextId, calls, scoring, idempotency>>

\* A statement or the commit raises (the database is unreachable, a lock wait
\* times out): the exception leaves the call and get_db_session closes the
\* session, which rolls its transaction back.
rollback(p) ==
    /\ sessions[p].pc \in {"cleared", "empty", "loaded_match"}
    /\ sessions' = [sessions EXCEPT ![p] = Done(sessions[p], "OperationalError", <<>>)]
    /\ response' = Response(sessions[p].op, sessions[p].tenant, sessions[p].arg,
                            "OperationalError", <<>>, "")
    /\ UNCHANGED <<transactions, invoice_status, candidates, nextId, calls, scoring, idempotency>>

\* The tables the interleaved calls start from: tenant tA with two invoices
\* and two transactions, tenant tB with one of each.
InitTx ==
    /\ sessions = [p \in Procs |-> IdleSession]
    /\ scoring = [input |-> NoInput, output |-> NoOutput]
    /\ \E second \in {TxnExact, TxnCentOff} :
         transactions = [x \in {"x1", "x2", "x5"} |->
             TxnRow(x, IF x = "x1" THEN TxnExact ELSE IF x = "x2" THEN second ELSE TxnOther)]
    /\ invoice_status = [i \in InvoiceIds |-> OPEN]
    /\ candidates = {}
    /\ nextId = 1
    /\ response = Response("none", "tA", 0, "", <<>>, "")
    /\ calls = 0
    /\ idempotency = {}

LoadInputs == \E p \in Procs, tenant \in Tenants : load_inputs(p, tenant)
TakeSnapshot == \E p \in Procs : take_snapshot(p)
FlushClearProposed == \E p \in Procs : flush_clear_proposed(p)
CommitProposed == \E p \in Procs : commit_proposed(p)
ClearAndReturnEmpty == \E p \in Procs : clear_and_return_empty(p)
LoadMatch == \E p \in Procs, tenant \in Tenants, match_id \in 1..nextId : load_match(p, tenant, match_id)
CommitConfirmation == \E p \in Procs : commit_confirmation(p)
Rollback == \E p \in Procs : rollback(p)

NextTx ==
    \/ LoadInputs \/ TakeSnapshot \/ FlushClearProposed \/ CommitProposed
    \/ ClearAndReturnEmpty \/ LoadMatch \/ CommitConfirmation \/ Rollback

SpecTx == InitTx /\ [][NextTx]_vars

(***************************************************************************)
(* The scoring functions called on their own: the pair or the component is  *)
(* drawn at the start, the call records what the function returned.         *)
(***************************************************************************)
ScoreInvoices ==
    [amount : {0, 10000, 15000, 20000}, invoice_date : {NoDate, 10},
     description : {None, DescPlain, DescAcme}, vendor : {None, "acme", "globex"}]

ScoreTransactions ==
    [amount : {0, 1, 10000, 10001, 10100, 10101, 15001, 25000},
     posted_at : {10, 13, 14, 17, 18, 100},
     description : {None, DescPlain, DescAcme}]

\* Components as the unit test of ScoreComponent.contribution builds them.
TestComponents ==
    { ScoreComponent("test", 30, achieved) :
        achieved \in {0 - 500000, 0, 750000, 1000000, 1500000} }

ScoringInputs ==
    { [NoInput EXCEPT !.kind = "pair", !.invoice = invoice, !.transaction = transaction] :
        invoice \in ScoreInvoices, transaction \in ScoreTransactions }
    \cup { [NoInput EXCEPT !.kind = "component", !.component = c] : c \in TestComponents }

InitScore ==
    /\ \E input \in ScoringInputs : scoring = [input |-> input, output |-> NoOutput]
    /\ sessions = [p \in Procs |-> IdleSession]
    /\ transactions = << >>
    /\ invoice_status = [i \in InvoiceIds |-> OPEN]
    /\ candidates = {}
    /\ nextId = 1
    /\ response = Response("none", "tA", 0, "", <<>>, "")
    /\ calls = 0
    /\ idempotency = {}

\* score_match(invoice, transaction) and the label of the MatchScore it returns
ScoreMatch ==
    /\ scoring.input.kind = "pair"
    /\ ~scoring.output.done
    /\ LET match_score == MatchScore(scoring.input.invoice, scoring.input.transaction)
       IN  scoring' = [scoring EXCEPT !.output =
               [done |-> TRUE, total |-> match_score.total,
                label |-> confidence_label(match_score.total),
                components |-> match_score.components, contribution |-> 0]]
    /\ UNCHANGED <<transactions, invoice_status, candidates, nextId, response, calls, sessions, idempotency>>

\* ScoreComponent(...).contribution
Contribution ==
    /\ scoring.input.kind = "component"
    /\ ~scoring.output.done
    /\ scoring' = [scoring EXCEPT !.output =
           [NoOutput EXCEPT !.done = TRUE,
                            !.contribution = contribution(scoring.input.component)]]
    /\ UNCHANGED <<transactions, invoice_status, candidates, nextId, response, calls, sessions, idempotency>>

NextScore == ScoreMatch \/ Contribution

SpecScore == InitScore /\ [][NextScore]_vars

(***************************************************************************)
(* Bank-transaction import (app/services/bank_transaction_service.py).      *)
(* A payload is a sequence of items; an item's external id is the text the  *)
(* caller sent, which may carry surrounding blanks. Imported rows get the   *)
(* next free primary key.                                                   *)
(***************************************************************************)
IDEMPOTENCY_ENDPOINT == "bank_transactions_import"

Item(external_id, amount) ==
    [external_id |-> external_id, posted_at |-> 11, amount |-> amount,
     description |-> DescPlain]

\* The payloads sent: one new id, the same id with another amount, two ids,
\* an id twice, an id and its blank-padded spelling, the padded spelling
\* alone, items without an external id, and an empty batch.
Payloads ==
    { <<Item("e1", 10000)>>,
      <<Item("e1", 10001)>>,
      <<Item("e1", 10000), Item("e2", 10000)>>,
      <<Item("e2", 10000), Item("e2", 10000)>>,
      <<Item("e2", 10000), Item("e2 ", 10000)>>,
      <<Item("e1 ", 10000)>>,
      <<Item(None, 10000), Item(" ", 10000)>>,
      << >> }

IdempotencyKeys == {None, "k1", "k2"}

\* str.strip() on the external ids of the payloads
strip(value) ==
    CASE value = "e1 " -> "e1"
      [] value = "e2 " -> "e2"
      [] value = " " -> ""
      [] OTHER -> value

_normalize_external_id(external_id) ==
    IF external_id = None THEN None
    ELSE IF strip(external_id) = "" THEN None ELSE strip(external_id)

\* stable_hash: the digest of the canonical JSON text of the dumped items.
\* The text spells every field of every item as it was sent, in order, and
\* two different texts have different digests.
stable_hash(items) ==
    [sha256 |-> [k \in 1..Len(items) |->
        <<items[k].amount, items[k].description, items[k].external_id, items[k].posted_at>>]]

get_key_never_found(records, tenant, endpoint, key) == {}

get_key(records, tenant, endpoint, key) ==
    { r \in records : r.tenant_id = tenant /\ r.endpoint = endpoint /\ r.key = key }

same_payload_always(existing, payload_hash) == TRUE

\* existing.payload_hash != payload_hash raises ConflictError
same_payload(existing, payload_hash) == existing.payload_hash = payload_hash

\* The external ids of the stored rows of the tenant found by the IN query
\* over the ids as sent (falsy ids left out).
get_by_external_ids(rows, tenant, external_ids) ==
    LET ids == { e \in external_ids : e # None /\ e # "" }
    IN  { rows[x].external_id : x \in { y \in DOMAIN rows :
              rows[y].tenant_id = tenant /\ rows[y].external_id \in ids } }

_duplicate_reason_counts_seen(normalized_id, existing_ids, seen) ==
    IF normalized_id = None THEN None
    ELSE IF normalized_id \in seen \/ normalized_id \in existing_ids THEN "existing"
    ELSE None

_duplicate_reason(normalized_id, existing_ids, seen) ==
    IF normalized_id = None THEN None
    ELSE IF normalized_id \in seen THEN "payload"
    ELSE IF normalized_id \in existing_ids THEN "existing"
    ELSE None

\* The loop over the items: the entities to create and the duplicate count,
\* or the ConflictError of an id met twice in the payload.
RECURSIVE process_items(_, _, _, _, _, _)
process_items(items, k, existing_ids, seen, created_entities, duplicates) ==
    IF k > Len(items)
    THEN [conflict |-> FALSE, created_entities |-> created_entities, duplicates |-> duplicates]
    ELSE LET normalized_id == _normalize_external_id(items[k].external_id)
             reason == _duplicate_reason(normalized_id, existing_ids, seen)
         IN  IF reason = "payload"
             THEN [conflict |-> TRUE, created_entities |-> << >>, duplicates |-> duplicates]
             ELSE IF reason = "existing"
             THEN process_items(items, k + 1, existing_ids, seen, created_entities,
                                duplicates + 1)
             ELSE process_items(items, k + 1, existing_ids,
                                IF normalized_id = None THEN seen ELSE seen \cup {normalized_id},
                                Append(created_entities, [items[k] EXCEPT
                                    !.external_id = normalized_id]),
                                duplicates)

_build_entity(tenant, id, item) ==
    [id |-> id, tenant_id |-> tenant, external_id |-> item.external_id,
     posted_at |-> item.posted_at, amount |-> item.amount, description |-> item.description]

\* uq_transaction_external_id: the flush fails when a new row repeats the
\* (tenant_id, external_id) of a stored row or of another new row.
violates_unique_external_id(rows, tenant, created_entities) ==
    \/ \E k \in 1..Len(created_entities), x \in DOMAIN rows :
         /\ created_entities[k].external_id # None
         /\ rows[x].tenant_id = tenant
         /\ rows[x].external_id = created_entities[k].external_id
    \/ \E j, k \in 1..Len(created_entities) :
         /\ j # k
         /\ created_entities[j].external_id # None
         /\ created_entities[j].external_id = created_entities[k].external_id

BankTransactionImportResponse(created, duplicates, conflicts, imported) ==
    [created |-> created, duplicates |-> duplicates, conflicts |-> conflicts,
     transactions |-> imported]

\* response.model_dump(mode="json"): the JSON object kept in response_body
model_dump(import_response) ==
    [json |-> <<import_response.created, import_response.duplicates,
                import_response.conflicts, import_response.transactions>>]

\* BankTransactionImportResponse.model_validate(record.response_body)
_deserialize_response(record) ==
    BankTransactionImportResponse(record.response_body.json[1], record.response_body.json[2],
                                  record.response_body.json[3], record.response_body.json[4])

ImportArg(payload, idempotency_key) == [payload |-> payload, key |-> idempotency_key]

import_transactions(tenant, payload, idempotency_key) ==
    /\ calls < MaxCalls
    /\ calls' = calls + 1
    /\ LET arg == ImportArg(payload, idempotency_key)
           payload_hash == stable_hash(payload)
           existing == get_key(idempotency, tenant, IDEMPOTENCY_ENDPOINT, idempotency_key)
           external_map ==
               get_by_external_ids(transactions, tenant,
                   { payload[k].external_id : k \in 1..Len(payload) })
           outcome == process_items(payload, 1, external_map, {}, << >>, 0)
           entities == [k \in 1..Len(outcome.created_entities) |->
                           _build_entity(tenant, nextId + k - 1, outcome.created_entities[k])]
           import_response ==
               BankTransactionImportResponse(Len(entities), outcome.duplicates, 0, entities)
           record ==
               [tenant_id |-> tenant, endpoint |-> IDEMPOTENCY_ENDPOINT,
                key |-> idempotency_key, payload_hash |-> payload_hash,
                response_status |-> 200, response_body |-> model_dump(import_response)]
           Raise(error) ==
               /\ response' = Response("import_transactions", tenant, arg, error, << >>, "")
               /\ UNCHANGED <<transactions, idempotency, nextId>>
       IN  IF idempotency_key = None THEN Raise("Validation")
           ELSE IF existing # {}
           THEN LET stored == CHOOSE r \in existing : TRUE
                IN  IF ~same_payload(stored, payload_hash) THEN Raise("Conflict")
                    ELSE /\ response' = Response("import_transactions", tenant, arg, "",
                                                 _deserialize_response(stored), "")
                         /\ UNCHANGED <<transactions, idempotency, nextId>>
           ELSE IF outcome.conflict THEN Raise("Conflict")
           ELSE IF violates_unique_external_id(transactions, tenant, outcome.created_entities)
           THEN \* IntegrityError at flush: session.rollback(), then ConflictError
                Raise("Conflict")
           ELSE /\ transactions' =
                       [x \in DOMAIN transactions \cup { entities[k].id : k \in DOMAIN entities } |->
                           IF x \in DOMAIN transactions THEN transactions[x]
                           ELSE entities[x - nextId + 1]]
                /\ idempotency' = idempotency \cup {record}
                /\ nextId' = nextId + Len(entities)
                /\ response' = Response("import_transactions", tenant, arg, "",
                                        import_response, "")
    /\ UNCHANGED <<invoice_status, candidates, sessions, scoring>>

InitImport ==
    /\ transactions = << >>
    /\ idempotency = {}
    /\ invoice_status = [i \in InvoiceIds |-> OPEN]
    /\ candidates = {}
    /\ nextId = 1
    /\ response = Response("none", "tA", 0, "", <<>>, "")
    /\ calls = 0
    /\ sessions = [p \in Procs |-> IdleSession]
    /\ scoring = [input |-> NoInput, output |-> NoOutput]

ImportTransactions ==
    \E tenant \in Tenants, payload \in Payloads, idempotency_key \in IdempotencyKeys :
        import_transactions(tenant, payload, idempotency_key)

NextImport == ImportTransactions

SpecImport == InitImport /\ [][NextImport]_vars

(***************************************************************************)
(* _build_proposed_entities called on its own: the stored rows are drawn    *)
(* from tables with and without candidate history, and the call records the *)
(* row orders it was given, the pool of shortlists and the selection.       *)
(***************************************************************************)
HistoryRow(id, invoice_id, txn_id, status) ==
    [id |-> id, tenant_id |-> "tA", invoice_id |-> invoice_id,
     bank_transaction_id |-> txn_id,
     score |-> score_match(Invoice(invoice_id), transactions[txn_id]), status |-> status]

InitAlloc ==
    /\ sessions = [p \in Procs |-> IdleSession]
    /\ scoring = [input |-> NoInput, output |-> NoOutput]
    /\ idempotency = {}
    /\ \E profile \in [TxnIds -> UNION { TxnProfiles(x) : x \in TxnIds }] :
         /\ \A x \in TxnIds : profile[x] \in TxnProfiles(x)
         /\ transactions = [x \in TxnIds |-> TxnRow(x, profile[x])]
    /\ \E confirmed \in BOOLEAN, proposed \in BOOLEAN, first \in {OPEN, PAID} :
         /\ candidates =
                (IF confirmed THEN {HistoryRow(1, "i1", "x1", CONFIRMED)} ELSE {})
                \cup (IF proposed THEN {HistoryRow(2, "i2", "x3", PROPOSED)} ELSE {})
         /\ invoice_status =
                [i \in InvoiceIds |-> IF i = "i1" THEN (IF confirmed THEN MATCHED ELSE first)
                                      ELSE OPEN]
         /\ confirmed => first = OPEN
    /\ nextId = 3
    /\ response = Response("none", "tA", 0, "", <<>>, "")
    /\ calls = 0

AllocationArg(invoice_rows, txn_rows, pool) ==
    [invoice_rows |-> invoice_rows, txn_rows |-> txn_rows, pool |-> pool]

\* reconcile() l.35-53 without the writes: the queries, the snapshot and the
\* call of _build_proposed_entities.
build_entities(tenant) ==
    /\ calls < MaxCalls
    /\ calls' = calls + 1
    /\ \E invoice_rows \in RowOrders(list_open_invoices(tenant)),
          txn_rows \in RowOrders(list_for_invoice_matching(tenant)) :
         /\ invoice_rows # <<>>
         /\ txn_rows # <<>>
         /\ response' =
                Response("_build_proposed_entities", tenant,
                    AllocationArg(invoice_rows, txn_rows,
                        candidate_pool(invoice_rows, txn_rows,
                            confirmed_invoice_ids(candidates, tenant),
                            confirmed_transaction_ids(candidates, tenant),
                            existing_pairs(candidates, tenant))),
                    "",
                    build_proposed_entities(invoice_rows, txn_rows,
                        confirmed_invoice_ids(candidates, tenant),
                        confirmed_transaction_ids(candidates, tenant),
                        existing_pairs(candidates, tenant)),
                    "")
    /\ UNCHANGED <<transactions, invoice_status, candidates, nextId, sessions, scoring,
                   idempotency>>

BuildProposedEntities == \E tenant \in Tenants : build_entities(tenant)

NextAlloc == BuildProposedEntities

SpecAlloc == InitAlloc /\ [][NextAlloc]_vars

(***************************************************************************)
(* The calls run one after the other, as functions of the stored rows (a    *)
(* row without its id: ids are fresh in every run).                         *)
(***************************************************************************)
NoId(rows) ==
    { [tenant_id |-> r.tenant_id, invoice_id |-> r.invoice_id,
       bank_transaction_id |-> r.bank_transaction_id, score |-> r.score,
       status |-> r.status] : r \in rows }

\* reconcile() l.32-67 run alone on `rows`.
serial_reconcile(rows, tenant, invoice_rows, txn_rows) ==
    IF invoice_rows = <<>> \/ txn_rows = <<>>
    THEN clear_proposed(rows, tenant)
    ELSE clear_proposed(rows, tenant) \cup
         { [tenant_id |-> tenant, invoice_id |-> c.invoice_id,
            bank_transaction_id |-> c.bank_transaction_id, score |-> c.score,
            status |-> PROPOSED] :
           c \in Range(build_proposed_entities(invoice_rows, txn_rows,
                          confirmed_invoice_ids(rows, tenant),
                          confirmed_transaction_ids(rows, tenant),
                          existing_pairs(rows, tenant))) }

\* The states two reconcile() calls of `tenant` can leave when one runs after
\* the other from `rows`.
SerialReconcileTwice(rows, tenant) ==
    { serial_reconcile(serial_reconcile(NoId(rows), tenant, ia, ta), tenant, ib, tb) :
        ia \in RowOrders(list_open_invoices(tenant)),
        ta \in RowOrders(list_for_invoice_matching(tenant)),
        ib \in RowOrders(list_open_invoices(tenant)),
        tb \in RowOrders(list_for_invoice_matching(tenant)) }

(***************************************************************************)
(* Properties                                                              *)
(***************************************************************************)
Pairs(rows) == { <<r.invoice_id, r.bank_transaction_id>> : r \in rows }
OfTenant(rows, tenant, status) == { r \in rows : r.tenant_id = tenant /\ r.status = status }

\* The step just taken is a call of `op` (every call counts and records its response).
IsCall(op) == calls' = calls + 1 /\ response'.op = op

\* C1: in every reachable state, two different CONFIRMED candidates of a
\* tenant never share an invoice and never share a bank transaction.
AtMostOneConfirmed ==
    \A a, b \in candidates :
        (a.id # b.id /\ a.tenant_id = b.tenant_id /\ a.status = CONFIRMED /\ b.status = CONFIRMED)
        => (a.invoice_id # b.invoice_id /\ a.bank_transaction_id # b.bank_transaction_id)

\* Two matches of one tenant have been confirmed.
TwoConfirmedReached ==
    \E a, b \in candidates :
        a.id # b.id /\ a.tenant_id = b.tenant_id /\ a.status = CONFIRMED /\ b.status = CONFIRMED

\* C2: right after a reconcile() call, no bank transaction is in two PROPOSED
\* candidates of the tenant and no invoice has more than 3 PROPOSED candidates.
ProposedDisjointAndCapped ==
    response.op = "reconcile" =>
        LET proposed == OfTenant(candidates, response.tenant, PROPOSED)
        IN  /\ \A a, b \in proposed :
                   a.id # b.id => a.bank_transaction_id # b.bank_transaction_id
            /\ \A i \in InvoiceIds :
                   Cardinality({ r \in proposed : r.invoice_id = i }) <= CANDIDATES_PER_INVOICE

\* A run gave one invoice 3 proposals and withheld a transaction that scores
\* at or above the threshold for a second invoice.
CapAndContentionReached ==
    /\ response.op = "reconcile"
    /\ LET proposed == OfTenant(candidates, response.tenant, PROPOSED)
       IN  /\ \E i \in InvoiceIds :
                  Cardinality({ r \in proposed : r.invoice_id = i }) = CANDIDATES_PER_INVOICE
           /\ \E r \in proposed : \E j \in InvoiceIds :
                  /\ j # r.invoice_id
                  /\ Invoice(j).tenant_id = response.tenant
                  /\ score_match(Invoice(j), transactions[r.bank_transaction_id]) >= SCORE_THRESHOLD

\* C3: a confirm_match(id) that succeeds acted on a PROPOSED candidate c of the
\* tenant; afterwards c is CONFIRMED, c's invoice is MATCHED, the other
\* PROPOSED candidates of the tenant for c's invoice are REJECTED, every other
\* candidate is as before, and c is returned with invoice status "matched".
ConfirmMatchEffect ==
    [][ (IsCall("confirm_match") /\ response'.error = "") =>
          \E c \in candidates :
              /\ c.id = response'.arg
              /\ c.tenant_id = response'.tenant
              /\ c.status = PROPOSED
              /\ Ids(candidates') = Ids(candidates)
              /\ Cardinality(candidates') = Cardinality(candidates)
              /\ \A r \in candidates :
                     IF r.id = c.id
                     THEN [r EXCEPT !.status = CONFIRMED] \in candidates'
                     ELSE IF /\ r.tenant_id = c.tenant_id
                             /\ r.invoice_id = c.invoice_id
                             /\ r.status = PROPOSED
                          THEN [r EXCEPT !.status = REJECTED] \in candidates'
                          ELSE r \in candidates'
              /\ invoice_status'[c.invoice_id] = MATCHED
              /\ response'.matches = << [c EXCEPT !.status = CONFIRMED] >>
              /\ response'.invoice_status = "matched" ]_vars

\* A confirmation rejected a sibling and left a proposal of another invoice alone.
ConfirmWithSiblingReached ==
    /\ response.op = "confirm_match"
    /\ response.error = ""
    /\ \E c \in Range(response.matches) :
           /\ \E r \in candidates :
                  r.tenant_id = c.tenant_id /\ r.invoice_id = c.invoice_id /\ r.status = REJECTED
           /\ \E r \in candidates :
                  r.tenant_id = c.tenant_id /\ r.invoice_id # c.invoice_id /\ r.status = PROPOSED

\* C4: confirm_match(id) on a candidate of the tenant that is CONFIRMED or
\* REJECTED raises Conflict and changes no candidate and no invoice; so does a
\* second confirm_match of the id that was just confirmed.
ConfirmNonProposedConflicts ==
    [][ IsCall("confirm_match") =>
          /\ (\E c \in candidates :
                  /\ c.id = response'.arg
                  /\ c.tenant_id = response'.tenant
                  /\ c.status \in {CONFIRMED, REJECTED})
             => /\ response'.error = "Conflict"
                /\ candidates' = candidates
                /\ invoice_status' = invoice_status
          /\ (/\ response.op = "confirm_match"
              /\ response.error = ""
              /\ response'.arg = response.arg
              /\ response'.tenant = response.tenant)
             => response'.error = "Conflict" ]_vars

\* A second confirm_match of a confirmed id was refused.
ConflictReached ==
    /\ response.op = "confirm_match"
    /\ response.error = "Conflict"
    /\ \E c \in candidates :
           c.id = response.arg /\ c.tenant_id = response.tenant /\ c.status = CONFIRMED

\* C5: confirm_match(id) when the tenant has no candidate with that id (the id
\* was never issued, its row was deleted, or it is another tenant's) raises
\* NotFound and changes no candidate and no invoice.
ConfirmMissingNotFound ==
    [][ (/\ IsCall("confirm_match")
         /\ ~ \E c \in candidates : c.id = response'.arg /\ c.tenant_id = response'.tenant)
        => /\ response'.error = "NotFound"
           /\ candidates' = candidates
           /\ invoice_status' = invoice_status ]_vars

\* confirm_match was refused for the id of another tenant's stored candidate.
NotFoundOtherTenantReached ==
    /\ response.op = "confirm_match"
    /\ response.error = "NotFound"
    /\ \E c \in candidates : c.id = response.arg /\ c.tenant_id # response.tenant

\* C6: a CONFIRMED candidate (I, T) stays stored and CONFIRMED in every step,
\* and no step creates a PROPOSED candidate of its tenant whose invoice is I
\* or whose bank transaction is T.
ConfirmedNeverReproposed ==
    [][ \A c \in candidates :
          c.status = CONFIRMED =>
              /\ c \in candidates'
              /\ \A n \in candidates' :
                     (n.id \notin Ids(candidates) /\ n.tenant_id = c.tenant_id
                         /\ n.status = PROPOSED)
                     => (n.invoice_id # c.invoice_id
                         /\ n.bank_transaction_id # c.bank_transaction_id) ]_vars

\* A reconcile() run made new proposals for a tenant that has a CONFIRMED match.
ReconcileAfterConfirmReached ==
    /\ response.op = "reconcile"
    /\ response.matches # <<>>
    /\ \E c \in candidates : c.tenant_id = response.tenant /\ c.status = CONFIRMED

\* C7: a reconcile() call that directly follows a reconcile() call of the same
\* tenant returns the same set of (invoice, transaction) pairs.
ReconcileIdempotent ==
    [][ (/\ response.op = "reconcile"
         /\ IsCall("reconcile")
         /\ response'.tenant = response.tenant)
        => Pairs(Range(response'.matches)) = Pairs(Range(response.matches)) ]_vars

ProposedAreTheReturned ==
    [][ IsCall("reconcile") =>
          /\ OfTenant(candidates', response'.tenant, PROPOSED) = Range(response'.matches)
          /\ \A m \in Range(response'.matches) :
                 m.status = PROPOSED /\ m.id \notin Ids(candidates)
          /\ \A r \in OfTenant(candidates, response'.tenant, PROPOSED) :
                 r.id \notin Ids(candidates') ]_vars

\* A run returned proposals after an earlier run's proposals were deleted.
StaleReplacedReached ==
    /\ response.op = "reconcile"
    /\ response.matches # <<>>
    /\ \E k \in 1..(nextId - 1) :
           /\ k \notin Ids(candidates)
           /\ k \notin Ids(Range(response.matches))

\* C10: in every step a CONFIRMED or REJECTED candidate stays stored unchanged;
\* a PROPOSED one stays, becomes CONFIRMED, becomes REJECTED or is removed;
\* and every row that appears is PROPOSED.
TerminalStatuses ==
    [][ /\ \A r \in candidates :
              IF r.status \in {CONFIRMED, REJECTED}
              THEN r \in candidates'
              ELSE \/ r \in candidates'
                   \/ [r EXCEPT !.status = CONFIRMED] \in candidates'
                   \/ [r EXCEPT !.status = REJECTED] \in candidates'
                   \/ r.id \notin Ids(candidates')
        /\ \A n \in candidates' :
              n.id \notin Ids(candidates) => n.status = PROPOSED ]_vars

\* A reconcile() run replaced proposals while CONFIRMED and REJECTED rows were stored.
RunOverTerminalRowsReached ==
    /\ response.op = "reconcile"
    /\ \E c, r \in candidates :
           /\ c.tenant_id = response.tenant /\ c.status = CONFIRMED
           /\ r.tenant_id = response.tenant /\ r.status = REJECTED
    /\ \E k \in 1..(nextId - 1) : k \notin Ids(candidates)

\* C11: a reconcile() call sets no candidate to REJECTED: the set of REJECTED
\* rows is the same before and after it, and the PROPOSED rows it replaces are
\* gone from storage; a confirm_match() call removes no row from storage, the
\* siblings it rejects stay stored with status REJECTED.
DeletionAndRejectionDistinct ==
    [][ /\ IsCall("reconcile") =>
              /\ { r \in candidates' : r.status = REJECTED }
                     = { r \in candidates : r.status = REJECTED }
              /\ \A r \in OfTenant(candidates, response'.tenant, PROPOSED) :
                     r.id \notin Ids(candidates')
        /\ IsCall("confirm_match") =>
              /\ Ids(candidates') = Ids(candidates)
              /\ \A r \in candidates :
                     (r \notin candidates' /\ r.id # response'.arg)
                     => [r EXCEPT !.status = REJECTED] \in candidates' ]_vars

\* A confirmation rejected a sibling, and the reconcile() run that followed
\* deleted a stale proposal while the rejected row stayed stored.
DeletedBesideRejectedReached ==
    /\ response.op = "reconcile"
    /\ \E r \in candidates : r.tenant_id = response.tenant /\ r.status = REJECTED
    /\ \E k \in 1..(nextId - 1) : k \notin Ids(candidates)
    /\ calls = 3

\* C12: a reconcile() call changes no invoice's status, and a confirm_match()
\* call changes an invoice's status only from OPEN to MATCHED: an invoice that
\* is not OPEN keeps its status.
OnlyOpenToMatched ==
    [][ /\ IsCall("reconcile") => invoice_status' = invoice_status
        /\ IsCall("confirm_match") =>
              \A i \in InvoiceIds :
                  invoice_status'[i] # invoice_status[i]
                  => (invoice_status[i] = OPEN /\ invoice_status'[i] = MATCHED) ]_vars

\* C13: each call is one unit of work. The committed candidate and invoice
\* state changes only in the step that commits a call that succeeds; the step
\* in which a call fails leaves it as it was, with every PROPOSED candidate the
\* failed call had deleted in its session still stored.
UnitOfWorkAtomic ==
    [][ /\ (candidates' # candidates \/ invoice_status' # invoice_status)
           => \E p \in Procs :
                  /\ sessions[p].pc # "done"
                  /\ sessions'[p].pc = "done"
                  /\ sessions'[p].error = ""
        /\ \A p \in Procs :
               (sessions'[p] # sessions[p] /\ sessions'[p].pc = "done" /\ sessions'[p].error # "")
               => /\ candidates' = candidates
                  /\ invoice_status' = invoice_status
                  /\ \A k \in sessions[p].deleted : k \in Ids(candidates') ]_vars

\* A reconcile() call of a tenant with stored proposals failed after it had
\* flushed its DELETE, and the proposals are all still stored.
FailedRunKeptProposedReached ==
    \E p \in Procs :
        /\ sessions[p].pc = "done"
        /\ sessions[p].op = "reconcile"
        /\ sessions[p].error = "OperationalError"
        /\ response.error = "OperationalError"
        /\ list_open_invoices(sessions[p].tenant) # {}
        /\ OfTenant(candidates, sessions[p].tenant, PROPOSED) # {}
        /\ candidates = sessions[p].base

\* C14: when two reconcile() calls of one tenant that started from the same
\* committed rows have both returned, the committed candidates are those one
\* of the two serial orders of the calls leaves.
ConcurrentReconcilesSerialized ==
    (/\ \A p \in Procs :
            sessions[p].pc = "done" /\ sessions[p].op = "reconcile" /\ sessions[p].error = ""
     /\ sessions["p1"].tenant = sessions["p2"].tenant
     /\ sessions["p1"].base = sessions["p2"].base)
    => NoId(candidates) \in SerialReconcileTwice(sessions["p1"].base, sessions["p1"].tenant)

\* C15: when a confirm_match() call and a reconcile() call of one tenant have
\* both returned, no PROPOSED candidate of the tenant references the invoice
\* or the bank transaction of a CONFIRMED candidate.
ConfirmAtomicWithReconcile ==
    (\E p, q \in Procs :
        /\ sessions[p].pc = "done" /\ sessions[p].op = "confirm_match" /\ sessions[p].error = ""
        /\ sessions[q].pc = "done" /\ sessions[q].op = "reconcile" /\ sessions[q].error = ""
        /\ sessions[p].tenant = sessions[q].tenant)
    => \A c, r \in candidates :
           (c.tenant_id = r.tenant_id /\ c.status = CONFIRMED /\ r.status = PROPOSED)
           => (r.invoice_id # c.invoice_id /\ r.bank_transaction_id # c.bank_transaction_id)

\* The candidates of one tenant.
Own(rows, tenant) == { r \in rows : r.tenant_id = tenant }

\* C16: every step of a call run for a tenant leaves the candidates and
\* invoices of every other tenant, and all bank transactions, unchanged; the
\* rows it adds belong to the tenant and join one of its invoices with one of
\* its transactions; and everything the call reads (the listed invoices and
\* transactions, the snapshot sets, the rows it deletes, the match and its
\* siblings) is what it would read if only the tenant's own rows were stored.
TenantIsolated ==
    [][ \A p \in Procs :
          sessions'[p] # sessions[p] =>
            LET t == sessions'[p].tenant
                s == sessions'[p]
            IN  /\ { r \in candidates' : r.tenant_id # t } = { r \in candidates : r.tenant_id # t }
                /\ \A i \in InvoiceIds :
                       Invoice(i).tenant_id # t => invoice_status'[i] = invoice_status[i]
                /\ transactions' = transactions
                /\ \A n \in candidates' \ candidates :
                       /\ n.tenant_id = t
                       /\ Invoice(n.invoice_id).tenant_id = t
                       /\ transactions[n.bank_transaction_id].tenant_id = t
                /\ \A i \in Range(s.invoice_rows) : Invoice(i).tenant_id = t
                /\ \A x \in Range(s.txn_rows) : transactions[x].tenant_id = t
                /\ s.pc = "snapshot" =>
                       /\ s.confirmed_inv = confirmed_invoice_ids(Own(candidates, t), t)
                       /\ s.confirmed_txn = confirmed_transaction_ids(Own(candidates, t), t)
                       /\ s.pairs = existing_pairs(Own(candidates, t), t)
                /\ s.deleted \subseteq Ids(Own(candidates, t))
                /\ s.found \subseteq Own(candidates, t)
                /\ s.siblings \subseteq Ids(Own(candidates, t)) ]_vars

\* With proposals of tenant tA stored, a reconcile() call of tA and one of tB
\* started from the same committed rows and both committed proposals.
InterleavedTenantsReached ==
    \E p, q \in Procs :
        /\ sessions[p].pc = "done" /\ sessions[p].op = "reconcile" /\ sessions[p].tenant = "tA"
        /\ sessions[q].pc = "done" /\ sessions[q].op = "reconcile" /\ sessions[q].tenant = "tB"
        /\ sessions[p].matches # <<>>
        /\ sessions[q].matches # <<>>
        /\ sessions[p].base = sessions[q].base
        /\ sessions[p].base # {}

\* C17: every candidate a reconcile() call creates has a score of at least
\* 0.45; and when the tenant has a single OPEN invoice, no stored candidate,
\* and n bank transactions that all score at least 0.45 for that invoice, the
\* call proposes exactly min(n, 3) candidates, all for that invoice, each with
\* a different transaction.
SingleInvoiceProposals ==
    [][ IsCall("reconcile") =>
          LET t == response'.tenant
              open == list_open_invoices(t)
              txns == list_for_invoice_matching(t)
              returned == Range(response'.matches)
          IN  /\ \A n \in candidates' \ candidates : n.score >= SCORE_THRESHOLD
              /\ (/\ Cardinality(open) = 1
                  /\ Own(candidates, t) = {}
                  /\ \A i \in open, x \in txns :
                         score_match(Invoice(i), transactions[x]) >= SCORE_THRESHOLD)
                 => /\ Len(response'.matches) = Min(Cardinality(txns), CANDIDATES_PER_INVOICE)
                    /\ \A m \in returned : m.invoice_id \in open /\ m.score >= SCORE_THRESHOLD
                    /\ Cardinality({ m.bank_transaction_id : m \in returned })
                           = Len(response'.matches) ]_vars

\* Tenant tA's first run, with i1 its only OPEN invoice and all four of its
\* transactions scoring at least 0.45 for i1, proposed three candidates.
ThreeOfFourReached ==
    /\ response.op = "reconcile"
    /\ response.tenant = "tA"
    /\ list_open_invoices("tA") = {"i1"}
    /\ Cardinality(list_for_invoice_matching("tA")) = 4
    /\ \A x \in list_for_invoice_matching("tA") :
           score_match(Invoice("i1"), transactions[x]) >= SCORE_THRESHOLD
    /\ Len(response.matches) = 3
    /\ nextId = 4
    /\ candidates = Range(response.matches)

\* The pair score_match was called on, once it has returned.
Scored == scoring.input.kind = "pair" /\ scoring.output.done

\* C18: the total score_match returns lies in [0, 1]: the five weights add up
\* to 1.05, each component contributes between 0 and its weight, and the total
\* is the sum of the contributions, 1.0 when the sum exceeds it, rounded to 4
\* places; a component's contribution is its weight times its achieved value
\* clamped to [0, 1].
ScoreInUnitInterval ==
    /\ Scored =>
         LET c == scoring.output.components
             sum == SumContributions(c)
         IN  /\ scoring.output.total \in 0..10000
             /\ Len(c) = 5
             /\ c[1].weight + c[2].weight + c[3].weight + c[4].weight + c[5].weight = 105
             /\ \A k \in 1..5 : contribution(c[k]) \in 0..(c[k].weight * 1000000)
             /\ scoring.output.total = IF sum >= 100000000 THEN 10000 ELSE round4(sum)
    /\ (scoring.input.kind = "component" /\ scoring.output.done) =>
         LET c == scoring.input.component
         IN  scoring.output.contribution =
                 IF c.achieved < 0 THEN 0
                 ELSE IF c.achieved > 1000000 THEN c.weight * 1000000
                 ELSE c.weight * c.achieved

\* A pair whose contributions add up to 1.05 was scored 1.0.
CapAppliedReached ==
    /\ Scored
    /\ SumContributions(scoring.output.components) = 105000000
    /\ scoring.output.total = 10000

\* C19: a pair whose amounts differ by at most 0.01, whose transaction was
\* posted within 3 days of the invoice date, whose descriptions are identical
\* and whose vendor name is part of the memo is scored 1.0 with label "high".
PerfectAlignmentIsHigh ==
    LET invoice == scoring.input.invoice
        transaction == scoring.input.transaction
    IN  (/\ Scored
         /\ Abs(invoice.amount - transaction.amount) <= 1
         /\ invoice.invoice_date # NoDate
         /\ Abs(transaction.posted_at - invoice.invoice_date) <= 3
         /\ invoice.description # None
         /\ invoice.description = transaction.description
         /\ invoice.vendor # None
         /\ vendor_in_memo(invoice.vendor, transaction.description))
        => (scoring.output.total = 10000 /\ scoring.output.label = "high")

\* C20: a pair whose amounts differ by more than 1.00, whose dates are more
\* than 7 days apart, whose invoice has no vendor and whose transaction has no
\* description (the invoice may have one or not) is scored 0.0 with label "low".
LargeMismatchIsZero ==
    LET invoice == scoring.input.invoice
        transaction == scoring.input.transaction
    IN  (/\ Scored
         /\ Abs(invoice.amount - transaction.amount) > 100
         /\ invoice.invoice_date # NoDate
         /\ Abs(transaction.posted_at - invoice.invoice_date) > 7
         /\ invoice.vendor = None
         /\ transaction.description = None)
        => (scoring.output.total = 0 /\ scoring.output.label = "low")

\* The records of the key for the tenant, and the items of a payload whose
\* external id is met again later in the payload and is not stored yet.
Recorded(tenant, key) ==
    { r \in idempotency : r.tenant_id = tenant /\ r.endpoint = IDEMPOTENCY_ENDPOINT /\ r.key = key }

StoredExternalIds(tenant) ==
    { transactions[x].external_id : x \in { y \in DOMAIN transactions :
          transactions[y].tenant_id = tenant } } \ {None}

RepeatsNewId(tenant, payload) ==
    \E j, k \in 1..Len(payload) :
        /\ j < k
        /\ _normalize_external_id(payload[j].external_id) # None
        /\ _normalize_external_id(payload[j].external_id) =
               _normalize_external_id(payload[k].external_id)
        /\ _normalize_external_id(payload[j].external_id) \notin StoredExternalIds(tenant)

\* C21: an import that records its key stores the response it returns, and an
\* import repeating a key already recorded for the tenant with the same
\* payload returns that stored response, creating no bank transaction and no
\* idempotency record, every time it is repeated.
ImportIdempotent ==
    [][IsCall("import_transactions") =>
        LET tenant == response'.tenant
            arg == response'.arg
            returned == response'.matches
            prior == { r \in Recorded(tenant, arg.key) :
                         r.payload_hash = stable_hash(arg.payload) }
        IN  /\ prior # {} =>
                 /\ response'.error = ""
                 /\ \A r \in prior :
                      /\ returned.created = r.response_body.json[1]
                      /\ returned.duplicates = r.response_body.json[2]
                      /\ returned.conflicts = r.response_body.json[3]
                      /\ returned.transactions = r.response_body.json[4]
                 /\ UNCHANGED <<transactions, idempotency>>
            /\ idempotency' # idempotency =>
                 /\ Recorded(tenant, arg.key) = {}
                 /\ Cardinality(idempotency' \ idempotency) = 1
                 /\ \A r \in idempotency' \ idempotency :
                      /\ r.tenant_id = tenant /\ r.key = arg.key
                      /\ r.payload_hash = stable_hash(arg.payload)
                      /\ r.response_body.json =
                             <<returned.created, returned.duplicates, returned.conflicts,
                               returned.transactions>>
                 /\ returned.created = Cardinality(DOMAIN transactions' \ DOMAIN transactions)
                 /\ Range(returned.transactions) =
                        { transactions'[x] : x \in DOMAIN transactions' \ DOMAIN transactions }
    ]_vars

\* A replayed response: the rows it returns were created before a row that is
\* stored now, and the call created nothing.
ReplayedImportReached ==
    /\ response.op = "import_transactions"
    /\ response.error = ""
    /\ calls = 3
    /\ response.matches.created >= 1
    /\ \E x \in DOMAIN transactions :
         \A k \in 1..Len(response.matches.transactions) :
             response.matches.transactions[k].id < x

\* C22: an import with a key already recorded for the tenant with another
\* payload raises Conflict, an import without a key raises Validation, and
\* both leave the bank transactions and the idempotency records as they were.
ImportKeyMisuseRejected ==
    [][IsCall("import_transactions") =>
        LET tenant == response'.tenant
            arg == response'.arg
        IN  /\ arg.key = None =>
                 /\ response'.error = "Validation"
                 /\ UNCHANGED <<transactions, idempotency>>
            /\ (\E r \in Recorded(tenant, arg.key) :
                    r.payload_hash # stable_hash(arg.payload)) =>
                 /\ response'.error = "Conflict"
                 /\ UNCHANGED <<transactions, idempotency>>
    ]_vars

KeyReusedWithOtherPayloadReached ==
    /\ response.op = "import_transactions"
    /\ response.error = "Conflict"
    /\ \E r \in Recorded(response.tenant, response.arg.key) :
         /\ r.payload_hash # stable_hash(response.arg.payload)
         /\ r.response_body.json[1] >= 1

\* C23: an import with a key not recorded yet whose payload holds the same new
\* external id twice raises Conflict and persists no bank transaction and no
\* idempotency record; the key stays free, and an import with a free key whose
\* external ids are new and distinct succeeds and creates every item.
DuplicateInPayloadAllOrNothing ==
    [][IsCall("import_transactions") =>
        LET tenant == response'.tenant
            arg == response'.arg
            ids == [k \in 1..Len(arg.payload) |->
                       _normalize_external_id(arg.payload[k].external_id)]
        IN  (arg.key # None /\ Recorded(tenant, arg.key) = {}) =>
                /\ RepeatsNewId(tenant, arg.payload) =>
                     /\ response'.error = "Conflict"
                     /\ UNCHANGED <<transactions, idempotency>>
                /\ (\A j, k \in 1..Len(ids) :
                        /\ ids[j] \notin StoredExternalIds(tenant)
                        /\ (j # k /\ ids[j] # None) => ids[j] # ids[k]) =>
                     /\ response'.error = ""
                     /\ response'.matches.created = Len(arg.payload)
                     /\ Cardinality({ r \in idempotency' :
                            r.tenant_id = tenant /\ r.key = arg.key }) = 1
    ]_vars

\* The failed batch next to stored rows of the same tenant: its first item was
\* new and valid, and was not kept.
DuplicateBatchRejectedReached ==
    /\ response.op = "import_transactions"
    /\ response.error = "Conflict"
    /\ response.arg.key # None
    /\ Recorded(response.tenant, response.arg.key) = {}
    /\ RepeatsNewId(response.tenant, response.arg.payload)
    /\ StoredExternalIds(response.tenant) # {}

\* C24: every candidate a reconcile() call creates is for a pair that had no
\* candidate row of any status when the call started; a pair with a PROPOSED,
\* CONFIRMED or REJECTED row is not proposed by that call.
NoHistoryReproposed ==
    [][IsCall("reconcile") =>
        \A n \in candidates' :
            n.id \notin Ids(candidates)
            => <<n.invoice_id, n.bank_transaction_id>> \notin Pairs(candidates) ]_vars

\* A run passed over a pair because of its history: an OPEN invoice got a
\* proposal although a transaction that is still free, in no returned match,
\* scores higher for it.
HistoryPairSkippedReached ==
    /\ response.op = "reconcile"
    /\ \E k \in 1..Len(response.matches) :
         LET m == response.matches[k]
         IN  \E x \in DOMAIN transactions :
                /\ transactions[x].tenant_id = response.tenant
                /\ x \notin confirmed_transaction_ids(candidates, response.tenant)
                /\ \A j \in 1..Len(response.matches) :
                       response.matches[j].bank_transaction_id # x
                /\ score_match(Invoice(m.invoice_id), transactions[x]) > m.score

\* C25: the set of pairs a reconcile() call proposes is the set it would have
\* proposed from the same stored rows for every other order in which the
\* repositories can return the invoice rows and the transaction rows.
ReconcileReproducible ==
    [][IsCall("reconcile") =>
        LET tenant == response'.tenant
        IN  \A invoice_rows \in RowOrders(list_open_invoices(tenant)),
               txn_rows \in RowOrders(list_for_invoice_matching(tenant)) :
                (invoice_rows # <<>> /\ txn_rows # <<>>)
                => Pairs(Range(build_proposed_entities(invoice_rows, txn_rows,
                             confirmed_invoice_ids(candidates, tenant),
                             confirmed_transaction_ids(candidates, tenant),
                             existing_pairs(candidates, tenant))))
                   = Pairs(Range(response'.matches)) ]_vars

Built == response.op = "_build_proposed_entities"

\* The transactions an invoice may be matched with in the stored state: of the
\* tenant, in no CONFIRMED candidate, without a candidate row for the pair,
\* and scoring at least the threshold.
EligibleFor(invoice_id) ==
    { x \in DOMAIN transactions :
        /\ transactions[x].tenant_id = Invoice(invoice_id).tenant_id
        /\ \A c \in candidates :
             /\ ~(c.status = CONFIRMED /\ c.bank_transaction_id = x)
             /\ ~(c.invoice_id = invoice_id /\ c.bank_transaction_id = x)
        /\ score_match(Invoice(invoice_id), transactions[x]) >= SCORE_THRESHOLD }

ShortlistOf(invoice_id) ==
    { response.arg.pool[k].bank_transaction_id :
        k \in { j \in DOMAIN response.arg.pool : response.arg.pool[j].invoice_id = invoice_id } }

\* C26: every transaction in the pool of shortlists is selected exactly once,
\* for an invoice that shortlisted it, with a score greater than or equal to
\* the score of every invoice that shortlisted it.
GreedyFavoursHighest ==
    Built =>
        \A k \in DOMAIN response.arg.pool :
            LET claim == response.arg.pool[k]
                given == { j \in DOMAIN response.matches :
                             response.matches[j].bank_transaction_id = claim.bank_transaction_id }
            IN  /\ Cardinality(given) = 1
                /\ \A j \in given :
                     /\ response.matches[j].score >= claim.score
                     /\ claim.bank_transaction_id \in ShortlistOf(response.matches[j].invoice_id)
                     /\ response.matches[j].score =
                            score_match(Invoice(response.matches[j].invoice_id),
                                        transactions[claim.bank_transaction_id])

\* A transaction shortlisted by two invoices with different scores, met first
\* in the pool with the lower score.
ContestedTransactionReached ==
    /\ Built
    /\ \E j, k \in DOMAIN response.arg.pool :
         /\ j < k
         /\ response.arg.pool[j].bank_transaction_id = response.arg.pool[k].bank_transaction_id
         /\ response.arg.pool[j].score < response.arg.pool[k].score

\* C27: for every OPEN invoice without a CONFIRMED candidate, the shortlist
\* holds min(3, k) of its k eligible transactions, no eligible transaction left
\* out scores higher than a shortlisted one, and every candidate selected for
\* the invoice is in its shortlist.
ShortlistIsTopThree ==
    Built =>
        \A i \in Range(response.arg.invoice_rows) :
            (\A c \in candidates : ~(c.status = CONFIRMED /\ c.invoice_id = i)) =>
                /\ ShortlistOf(i) \subseteq EligibleFor(i)
                /\ Cardinality(ShortlistOf(i)) = Min(CANDIDATES_PER_INVOICE,
                                                     Cardinality(EligibleFor(i)))
                /\ \A x \in EligibleFor(i) \ ShortlistOf(i), y \in ShortlistOf(i) :
                       score_match(Invoice(i), transactions[x])
                           <= score_match(Invoice(i), transactions[y])
                /\ \A j \in DOMAIN response.matches :
                       response.matches[j].invoice_id = i
                       => response.matches[j].bank_transaction_id \in ShortlistOf(i)

\* An invoice with four eligible transactions whose lowest-scoring one came
\* first in the rows and was left out of the shortlist.
ShortlistCutReached ==
    /\ Built
    /\ \E i \in Range(response.arg.invoice_rows) :
         /\ Cardinality(EligibleFor(i)) = 4
         /\ Head(response.arg.txn_rows) \in EligibleFor(i) \ ShortlistOf(i)
         /\ \A y \in ShortlistOf(i) :
                score_match(Invoice(i), transactions[Head(response.arg.txn_rows)])
                    < score_match(Invoice(i), transactions[y])

\* C28: for every scored pair, amount_exact is achieved exactly when the
\* amounts differ by at most one cent, and amount_tolerance is non-zero exactly
\* when they differ by less than 1.00.
AmountComparisonExact ==
    Scored =>
        LET cents == Abs(scoring.input.invoice.amount - scoring.input.transaction.amount)
            c == scoring.output.components
        IN  /\ c[1].name = "amount_exact"
            /\ (c[1].achieved = 1000000) <=> (cents <= 1)
            /\ c[2].name = "amount_tolerance"
            /\ (c[2].achieved # 0) <=> (cents < 100)

\* C29: when two confirm_match() calls on two different candidates of the same
\* invoice have both finished, they have not both succeeded, and the invoice
\* has exactly one CONFIRMED candidate, the other of the two being REJECTED.
ConcurrentConfirmsExclusive ==
    \A p, q \in Procs :
        \A m, n \in candidates :
            (/\ p # q /\ m.id # n.id /\ m.invoice_id = n.invoice_id
             /\ m.tenant_id = sessions[p].tenant /\ n.tenant_id = sessions[q].tenant
             /\ sessions[p].pc = "done" /\ sessions[p].op = "confirm_match"
             /\ sessions[p].arg = m.id
             /\ sessions[q].pc = "done" /\ sessions[q].op = "confirm_match"
             /\ sessions[q].arg = n.id
             /\ sessions[p].error \in {"", "Conflict"}
             /\ sessions[q].error \in {"", "Conflict"}
             /\ "" \in {sessions[p].error, sessions[q].error})
            => /\ ~(sessions[p].error = "" /\ sessions[q].error = "")
               /\ {m.status, n.status} = {CONFIRMED, REJECTED}
               /\ Cardinality({ c \in candidates :
                      c.invoice_id = m.invoice_id /\ c.status = CONFIRMED }) = 1

\* C30: with only reconcile() and confirm_match() calls run one after the
\* other from all-OPEN invoices and no candidates, in every reachable state an
\* invoice is MATCHED exactly when it has a CONFIRMED candidate, every PROPOSED
\* candidate belongs to an OPEN invoice, and every REJECTED candidate belongs
\* to a MATCHED invoice.
StatusesConsistent ==
    /\ \A i \in InvoiceIds :
         (invoice_status[i] = MATCHED)
             <=> (\E c \in candidates : c.invoice_id = i /\ c.status = CONFIRMED)
    /\ \A c \in candidates :
         /\ c.status = PROPOSED => invoice_status[c.invoice_id] = OPEN
         /\ c.status = REJECTED => invoice_status[c.invoice_id] = MATCHED

\* A tenant with a MATCHED invoice that has a CONFIRMED and a REJECTED
\* candidate, and an OPEN invoice with a PROPOSED one.
AllThreeStatusesReached ==
    \E c, r, p \in candidates :
        /\ c.status = CONFIRMED /\ r.status = REJECTED /\ p.status = PROPOSED
        /\ c.invoice_id = r.invoice_id
        /\ p.tenant_id = c.tenant_id
        /\ p.invoice_id # c.invoice_id

====
